---- MODULE Spec2Model ----
(***************************************************************************)
(* A model of rescue.cpp, the file recovery scanner: the scan loop of      *)
(* main, the JPEG detector (jpeg_is_header, jpeg_find_footer,              *)
(* jpeg_rescue), the ASCII detector (ascii_rescue) and the fragment sink   *)
(* (write_fragment), together with the shell that runs the "gzip" lines    *)
(* the program prints.                                                     *)
(*                                                                         *)
(* Pointers are modelled as byte offsets from g_start: the byte at offset  *)
(* o of the mapped file is buf[o + 1], and `end` is the offset Len(buf).   *)
(***************************************************************************)
EXTENDS Integers, Sequences, FiniteSets, TLC

VARIABLES
    buf,                    \* the mapped file, a sequence of bytes (read-only)
    cur,                    \* main: cur, as an offset
    pc,                     \* position of the program
    g_fragment_id,          \* the last fragment id output
    g_ascii_ignore_before,  \* the ASCII suppression boundary, as an offset
    wf,                     \* the active write_fragment call: its arguments and FILE*
    files,                  \* the output directory: file name -> [content, open]
    cout,                   \* the lines written to stdout, in order
    gzipped,                \* what the shell found for each line it has run
    fragments,              \* history: the arguments of every write_fragment call
    offered,                \* history: the detector calls made by main, in order
    reads,                  \* history: the last detector called and the offsets it read
    fault                   \* history: why the process was killed, if it was

vars == <<buf, cur, pc, g_fragment_id, g_ascii_ignore_before, wf, files, cout,
          gzipped, fragments, offered, reads, fault>>

(***************************************************************************)
(* Bounds of the model.  The two size thresholds of the program are scaled *)
(* down so that buffers on both sides of each threshold can be enumerated: *)
(* min_size_bytes stands for the 1024 of ascii_rescue, max_length_bytes    *)
(* for the 40 * 1024 * 1024 of jpeg_find_footer, and arbitrary_len for the *)
(* 500 data bytes of the end-to-end example.                               *)
(***************************************************************************)
min_size_bytes == 5
max_length_bytes == 28
arbitrary_len == 14
MaxTokens == 3

jpeg_pattern_size == 12

NULL == -1

(***************************************************************************)
(* Bytes.                                                                  *)
(***************************************************************************)
RECURSIVE BitAnd(_, _)
\* The C operator & on two bytes.
BitAnd(a, b) ==
    IF a = 0 \/ b = 0 THEN 0
    ELSE (IF a % 2 = 1 /\ b % 2 = 1 THEN 1 ELSE 0) + 2 * BitAnd(a \div 2, b \div 2)

end == Len(buf)

\* mem[0] for the pointer mem = g_start + o, with o inside the file.
mem(o) == buf[o + 1]

jfif_pattern == <<255, 216, 255, 224, 0, 0, 74, 70, 73, 70, 0, 1>>

exif_pattern == <<255, 216, 255, 225, 0, 0, 69, 120, 105, 102, 0, 0>>

\* Mutant: the two length bytes are compared too.
jpeg_mask_exact == <<255, 255, 255, 255, 255, 255, 255, 255, 255, 255, 255, 255>>

jpeg_mask == <<255, 255, 255, 255, 0, 0, 255, 255, 255, 255, 255, 255>>

(***************************************************************************)
(* check_if_bytes_match: the value of i when the while loop stops.         *)
(***************************************************************************)
RECURSIVE match_loop(_, _, _, _, _)
match_loop(o, pattern_size, pattern, mask, i) ==
    IF i < pattern_size /\ o + i # end
       /\ BitAnd(mem(o + i), mask[i + 1]) = pattern[i + 1]
    THEN match_loop(o, pattern_size, pattern, mask, i + 1)
    ELSE i

check_if_bytes_match(o, pattern_size, pattern, mask) ==
    match_loop(o, pattern_size, pattern, mask, 0) = pattern_size

\* The offsets check_if_bytes_match reads: mem[0..i], the last one being the
\* byte that stopped the loop, unless the loop stopped on i or on the end.
match_reads(o, pattern_size, pattern, mask) ==
    LET i == match_loop(o, pattern_size, pattern, mask, 0)
    IN  {o + k : k \in 0..(IF i < pattern_size /\ o + i # end THEN i ELSE i - 1)}

jpeg_is_header(o) ==
    \/ check_if_bytes_match(o, jpeg_pattern_size, jfif_pattern, jpeg_mask)
    \/ check_if_bytes_match(o, jpeg_pattern_size, exif_pattern, jpeg_mask)

\* || short-circuits: the EXIF pattern is compared only if the JFIF one failed.
jpeg_is_header_reads(o) ==
    match_reads(o, jpeg_pattern_size, jfif_pattern, jpeg_mask)
    \cup (IF check_if_bytes_match(o, jpeg_pattern_size, jfif_pattern, jpeg_mask)
          THEN {}
          ELSE match_reads(o, jpeg_pattern_size, exif_pattern, jpeg_mask))

(***************************************************************************)
(* jpeg_find_footer.                                                       *)
(***************************************************************************)
\* Mutant: the search stops one byte short of the maximum length.
footer_max_mem_short(o) ==
    IF end - 2 > o + max_length_bytes - 1 THEN o + max_length_bytes - 1 ELSE end - 2

\* The last offset the search examines: end - 2, capped by the maximum length.
footer_max_mem(o) ==
    IF end - 2 > o + max_length_bytes THEN o + max_length_bytes ELSE end - 2

\* Mutant: every FF D9 ends the file, whatever follows it.
footer_accepts_any(m) == mem(m) = 255 /\ mem(m + 1) = 217

\* Mutant: an FF D9 is accepted only where the two bytes after it can be read.
footer_accepts_lookahead(m) ==
    /\ mem(m) = 255
    /\ mem(m + 1) = 217
    /\ m + 3 < end
    /\ (mem(m + 2) # 255 \/ mem(m + 3) # 225)

\* The test made at each offset m <= max_mem: FF D9, and no FF E1 after it.
footer_accepts(m) ==
    /\ mem(m) = 255
    /\ mem(m + 1) = 217
    /\ (m + 3 >= end \/ mem(m + 2) # 255 \/ mem(m + 3) # 225)

RECURSIVE footer_loop(_, _)
footer_loop(m, max_mem) ==
    IF m <= max_mem
    THEN IF footer_accepts(m) THEN m + 2 ELSE footer_loop(m + 1, max_mem)
    ELSE NULL

\* Mutant: a JPEG without a footer is taken to run to the end of the file.
jpeg_find_footer_or_end(o) ==
    IF footer_loop(o, footer_max_mem(o)) = NULL THEN end
    ELSE footer_loop(o, footer_max_mem(o))

\* One byte past the end of the JPEG that starts at o, or NULL.
jpeg_find_footer(o) == footer_loop(o, footer_max_mem(o))

\* Mutant: the two bytes after FF D9 are read without the test mem + 3 >= end.
footer_reads_at_unguarded(m) ==
    {m}
    \cup (IF mem(m) = 255 THEN {m + 1} ELSE {})
    \cup (IF mem(m) = 255 /\ mem(m + 1) = 217 THEN {m + 2, m + 3} ELSE {})

\* The offsets the search reads: && and || short-circuit from left to right.
footer_reads_at(m) ==
    {m}
    \cup (IF mem(m) = 255 THEN {m + 1} ELSE {})
    \cup (IF mem(m) = 255 /\ mem(m + 1) = 217 /\ m + 3 < end THEN {m + 2} ELSE {})
    \cup (IF mem(m) = 255 /\ mem(m + 1) = 217 /\ m + 3 < end /\ mem(m + 2) = 255
          THEN {m + 3} ELSE {})

jpeg_find_footer_reads(o) ==
    LET jpeg_end == jpeg_find_footer(o)
        last == IF jpeg_end = NULL THEN footer_max_mem(o) ELSE jpeg_end - 2
    IN  UNION {footer_reads_at(m) : m \in o..last}

(***************************************************************************)
(* ascii_rescue: the scan of the printable run.                            *)
(***************************************************************************)
\* Mutant: no upper limit, 0x7F..0xFF count as printable.
is_printable_wide(b) == b >= 32

is_printable(b) == b >= 32 /\ b <= 126

\* The bytes a read of *cur can give when cur = end, one byte past the mapping
\* (the rest of the last page, or whatever is mapped after it).
PastEndBytes == {0, 65}

RECURSIVE ascii_loop(_, _)
\* The value of cur when the while loop stops.  *cur is tested before
\* cur < end, so at cur = end the byte past the file is read (past).
ascii_loop(c, past) ==
    LET b == IF c < end THEN mem(c) ELSE past
    IN  IF is_printable(b) /\ c < end
        THEN ascii_loop(c + 1, past)
        ELSE c

\* Mutant: a run of exactly the minimum size is not taken for a file.
ascii_is_file_strict(ascii_start, c) == c - ascii_start > min_size_bytes

\* Mutant: a run of any size, the empty one too, is taken for a file.
ascii_is_file_any(ascii_start, c) == c - ascii_start >= 0

ascii_is_file(ascii_start, c) == c - ascii_start >= min_size_bytes

(***************************************************************************)
(* write_fragment.                                                         *)
(***************************************************************************)
\* snprintf(filename, 256, "%s-fragment-%llu.%s", extension, id, extension)
snprintf_filename(extension, id) ==
    extension \o "-fragment-" \o ToString(id) \o "." \o extension

\* Mutant: the gzip line is printed as soon as the file is open.
write_fragment_next_early(step) ==
    CASE step = "fopen" -> "cout"
      [] step = "cout" -> "fwrite"
      [] step = "fwrite" -> "fclose"
      [] step = "fclose" -> "return"

\* The statements of write_fragment after the file name is worked out, in
\* program order.
write_fragment_next(step) ==
    CASE step = "fopen" -> "fwrite"
      [] step = "fwrite" -> "fclose"
      [] step = "fclose" -> "cout"
      [] step = "cout" -> "return"

NoCall == [start |-> 0, end |-> 0, extension |-> "", filename |-> "",
           f |-> NULL, ret |-> ""]

\* Mutant: the id is not incremented.
write_fragment_call_same_id(start, e, extension, ret) ==
    /\ g_fragment_id' = g_fragment_id
    /\ wf' = [start |-> start, end |-> e, extension |-> extension,
              filename |-> snprintf_filename(extension, g_fragment_id),
              f |-> NULL, ret |-> ret]
    /\ fragments' = Append(fragments, [start |-> start, end |-> e,
                                       extension |-> extension,
                                       id |-> g_fragment_id])
    /\ pc' = "fopen"

\* A call of write_fragment(start, end, extension) from the detector ret:
\* lines 195-201, the next id and the file name.
write_fragment_call(start, e, extension, ret) ==
    /\ g_fragment_id' = g_fragment_id + 1
    /\ wf' = [start |-> start, end |-> e, extension |-> extension,
              filename |-> snprintf_filename(extension, g_fragment_id + 1),
              f |-> NULL, ret |-> ret]
    /\ fragments' = Append(fragments, [start |-> start, end |-> e,
                                       extension |-> extension,
                                       id |-> g_fragment_id + 1])
    /\ pc' = "fopen"

\* Where write_fragment goes after the statement `step`; on return, back into
\* the detector that called it: jpeg_rescue returns to main, which calls
\* ascii_rescue; ascii_rescue sets g_ascii_ignore_before = cur and returns.
write_fragment_goto(step) ==
    LET next == write_fragment_next(step)
    IN  /\ pc' = IF next # "return" THEN next
                 ELSE IF wf.ret = "jpeg_rescue" THEN "ascii_rescue" ELSE "advance"
        /\ g_ascii_ignore_before' =
              IF next = "return" /\ wf.ret = "ascii_rescue" THEN wf.end
              ELSE g_ascii_ignore_before

\* FILE *f = fopen(filename, "w"): creates or truncates the file, or fails.
fopen ==
    /\ pc = "fopen"
    /\ \E ok \in BOOLEAN :
          IF ok
          THEN /\ wf' = [wf EXCEPT !.f = 1]
               /\ files' = [n \in DOMAIN files \cup {wf.filename} |->
                              IF n = wf.filename
                              THEN [content |-> <<>>, open |-> TRUE]
                              ELSE files[n]]
          ELSE /\ wf' = [wf EXCEPT !.f = NULL]
               /\ files' = files
    /\ write_fragment_goto("fopen")
    /\ UNCHANGED <<buf, cur, g_fragment_id, cout, gzipped, fragments, offered,
                   reads, fault>>

\* fwrite(start, 1, end - start, f).  With f = NULL the call dereferences a
\* null FILE* and the process is killed.
fwrite ==
    /\ pc = "fwrite"
    /\ IF wf.f = NULL
       THEN /\ pc' = "killed"
            /\ fault' = "fwrite_null"
            /\ UNCHANGED <<files, g_ascii_ignore_before>>
       ELSE /\ files' = [n \in DOMAIN files |->
                           IF n = wf.filename
                           THEN [files[n] EXCEPT
                                   !.content = SubSeq(buf, wf.start + 1, wf.end)]
                           ELSE files[n]]
            /\ write_fragment_goto("fwrite")
            /\ fault' = fault
    /\ UNCHANGED <<buf, cur, g_fragment_id, wf, cout, gzipped, fragments,
                   offered, reads>>

\* fclose(f).
fclose ==
    /\ pc = "fclose"
    /\ IF wf.f = NULL
       THEN /\ pc' = "killed"
            /\ fault' = "fwrite_null"
            /\ UNCHANGED <<files, g_ascii_ignore_before>>
       ELSE /\ files' = [n \in DOMAIN files |->
                           IF n = wf.filename
                           THEN [files[n] EXCEPT !.open = FALSE]
                           ELSE files[n]]
            /\ write_fragment_goto("fclose")
            /\ fault' = fault
    /\ UNCHANGED <<buf, cur, g_fragment_id, wf, cout, gzipped, fragments,
                   offered, reads>>

\* std::cout << "gzip " << filename << "\n": one line, the words of the command.
stdout ==
    /\ pc = "cout"
    /\ cout' = Append(cout, <<"gzip", wf.filename>>)
    /\ write_fragment_goto("cout")
    /\ UNCHANGED <<buf, cur, g_fragment_id, wf, files, gzipped, fragments,
                   offered, reads, fault>>

(***************************************************************************)
(* jpeg_rescue, ascii_rescue and the loop of main.                         *)
(***************************************************************************)
\* Mutant: the "To do" of jpeg_rescue, no examination inside a JPEG that has
\* already been found.
jpeg_rescue_skip_found ==
    /\ pc = "jpeg_rescue"
    /\ offered' = Append(offered, <<"jpeg_rescue", cur>>)
    /\ IF /\ jpeg_is_header(cur)
          /\ jpeg_find_footer(cur) # NULL
          /\ \A i \in DOMAIN fragments :
                fragments[i].extension = "jpg" => cur >= fragments[i].end
       THEN /\ reads' = [by |-> "jpeg_rescue",
                         offsets |-> jpeg_is_header_reads(cur)
                                     \cup jpeg_find_footer_reads(cur)]
            /\ write_fragment_call(cur, jpeg_find_footer(cur), "jpg",
                                   "jpeg_rescue")
       ELSE /\ reads' = [by |-> "jpeg_rescue", offsets |-> {}]
            /\ pc' = "ascii_rescue"
            /\ UNCHANGED <<g_fragment_id, wf, fragments>>
    /\ UNCHANGED <<buf, cur, g_ascii_ignore_before, files, cout, gzipped, fault>>

jpeg_rescue ==
    /\ pc = "jpeg_rescue"
    /\ offered' = Append(offered, <<"jpeg_rescue", cur>>)
    /\ IF jpeg_is_header(cur)
       THEN LET jpeg_end == jpeg_find_footer(cur)
            IN  /\ reads' = [by |-> "jpeg_rescue",
                              offsets |-> jpeg_is_header_reads(cur)
                                          \cup jpeg_find_footer_reads(cur)]
                /\ IF jpeg_end = NULL
                   THEN /\ pc' = "ascii_rescue"
                        /\ UNCHANGED <<g_fragment_id, wf, fragments>>
                   ELSE write_fragment_call(cur, jpeg_end, "jpg", "jpeg_rescue")
       ELSE /\ reads' = [by |-> "jpeg_rescue", offsets |-> jpeg_is_header_reads(cur)]
            /\ pc' = "ascii_rescue"
            /\ UNCHANGED <<g_fragment_id, wf, fragments>>
    /\ UNCHANGED <<buf, cur, g_ascii_ignore_before, files, cout, gzipped, fault>>

\* Mutant: no test of g_ascii_ignore_before, every call scans.
ascii_rescue_rescan ==
    /\ pc = "ascii_rescue"
    /\ offered' = Append(offered, <<"ascii_rescue", cur>>)
    /\ \E past \in PastEndBytes, segv \in BOOLEAN :
          LET c == ascii_loop(cur, past)
          IN  /\ reads' = [by |-> "ascii_rescue", offsets |-> cur..c]
              /\ IF c = end /\ segv
                 THEN /\ pc' = "killed"
                      /\ fault' = "read_past_end"
                      /\ UNCHANGED <<g_fragment_id, g_ascii_ignore_before,
                                     wf, fragments>>
                 ELSE /\ fault' = fault
                      /\ IF ascii_is_file(cur, c)
                         THEN /\ write_fragment_call(cur, c, "txt",
                                                     "ascii_rescue")
                              /\ UNCHANGED g_ascii_ignore_before
                         ELSE /\ g_ascii_ignore_before' = c
                              /\ pc' = "advance"
                              /\ UNCHANGED <<g_fragment_id, wf, fragments>>
    /\ UNCHANGED <<buf, cur, files, cout, gzipped>>

\* When the printable run reaches the end of the file the loop reads *end:
\* the read gives some byte (past), or faults and the process is killed (segv).
ascii_rescue ==
    /\ pc = "ascii_rescue"
    /\ offered' = Append(offered, <<"ascii_rescue", cur>>)
    /\ IF cur < g_ascii_ignore_before
       THEN /\ pc' = "advance"
            /\ reads' = [by |-> "ascii_rescue", offsets |-> {}]
            /\ UNCHANGED <<g_fragment_id, g_ascii_ignore_before, wf, fragments,
                           fault>>
       ELSE \E past \in PastEndBytes, segv \in BOOLEAN :
               LET c == ascii_loop(cur, past)
               IN  /\ reads' = [by |-> "ascii_rescue", offsets |-> cur..c]
                   /\ IF c = end /\ segv
                      THEN /\ pc' = "killed"
                           /\ fault' = "read_past_end"
                           /\ UNCHANGED <<g_fragment_id, g_ascii_ignore_before,
                                          wf, fragments>>
                      ELSE /\ fault' = fault
                           /\ IF ascii_is_file(cur, c)
                              THEN /\ write_fragment_call(cur, c, "txt",
                                                          "ascii_rescue")
                                   /\ UNCHANGED g_ascii_ignore_before
                              ELSE /\ g_ascii_ignore_before' = c
                                   /\ pc' = "advance"
                                   /\ UNCHANGED <<g_fragment_id, wf, fragments>>
    /\ UNCHANGED <<buf, cur, files, cout, gzipped>>

\* Mutant: after a fragment found at cur, the scan goes on after the fragment.
advance_past_fragment ==
    /\ pc = "advance"
    /\ cur' = IF \E i \in DOMAIN fragments : fragments[i].start = cur
              THEN fragments[Len(fragments)].end
              ELSE cur + 1
    /\ pc' = IF cur' # end THEN "jpeg_rescue" ELSE "complete"
    /\ UNCHANGED <<buf, g_fragment_id, g_ascii_ignore_before, wf, files, cout,
                   gzipped, fragments, offered, reads, fault>>

\* cur++ and the test of the while loop.
advance ==
    /\ pc = "advance"
    /\ cur' = cur + 1
    /\ pc' = IF cur + 1 # end THEN "jpeg_rescue" ELSE "complete"
    /\ UNCHANGED <<buf, g_fragment_id, g_ascii_ignore_before, wf, files, cout,
                   gzipped, fragments, offered, reads, fault>>

(***************************************************************************)
(* The shell the output is piped to ("./rescue <file> | bash"): it runs    *)
(* the lines in order, concurrently with the program.  gzip reads the      *)
(* named file as it is at that moment and removes it (leaving <name>.gz).   *)
(***************************************************************************)
bash ==
    /\ Len(gzipped) < Len(cout)
    /\ LET name == cout[Len(gzipped) + 1][2]
       IN  IF name \in DOMAIN files
           THEN /\ gzipped' = Append(gzipped, [name |-> name, found |-> TRUE,
                                               open |-> files[name].open,
                                               content |-> files[name].content])
                /\ files' = [n \in DOMAIN files \ {name} |-> files[n]]
           ELSE /\ gzipped' = Append(gzipped, [name |-> name, found |-> FALSE,
                                               open |-> FALSE, content |-> <<>>])
                /\ files' = files
    /\ UNCHANGED <<buf, cur, pc, g_fragment_id, g_ascii_ignore_before, wf, cout,
                   fragments, offered, reads, fault>>

(***************************************************************************)
(* The files scanned.  Every non-empty byte sequence is a possible input   *)
(* (mmap fails on an empty file and main returns before the loop); the     *)
(* model scans the sequences built from the pieces the detectors react to. *)
(***************************************************************************)
Rep(b, n) == [i \in 1..n |-> b]

RECURSIVE Flatten(_)
Flatten(ss) == IF ss = <<>> THEN <<>> ELSE Head(ss) \o Flatten(Tail(ss))

JfifHeader(b4, b5) == <<255, 216, 255, 224, b4, b5, 74, 70, 73, 70, 0, 1>>

ExifHeader(b4, b5) == <<255, 216, 255, 225, b4, b5, 69, 120, 105, 102, 0, 0>>

\* A JFIF header whose two length bytes are FF D9, an EXIF header, the
\* end-of-image marker, the APP1 marker, a printable run one byte short of a
\* text file, a space and the byte after the printable range.
Tokens ==
    { JfifHeader(255, 217), ExifHeader(0, 16), <<255, 217>>, <<255, 225>>,
      Rep(126, min_size_bytes - 1), <<32>>, <<127>> }

TokenBuffers ==
    UNION { {Flatten(ts) : ts \in [1..n -> Tokens]} : n \in 1..MaxTokens }

\* A header, filler up to and around the maximum length, the marker, a tail.
WindowBuffers ==
    { h \o Rep(0, n) \o <<255, 217>> \o t :
        h \in {JfifHeader(0, 16), ExifHeader(0, 16)},
        n \in (max_length_bytes - 14)..(max_length_bytes - 10),
        t \in {<<>>, <<255, 225>>, <<255, 217>>} }

\* Headers cut short by the end of the file or with one fixed byte wrong, and
\* printable runs around the minimum size between the bytes on both sides of
\* the printable range.
EdgeBuffers ==
    { p \o SubSeq(h, 1, n) \o t :
        p \in {<<>>, <<0>>},
        h \in {JfifHeader(0, 16), ExifHeader(0, 16)},
        n \in 1..11,
        t \in {<<>>} }
    \cup { [h EXCEPT ![i] = 1] \o <<255, 217>> :
             h \in {JfifHeader(0, 16), ExifHeader(0, 16)}, i \in 1..12 }
    \cup { <<x>> \o Rep(y, n) \o <<z>> \o Rep(32, m) \o t :
             x \in {31, 32}, y \in {32, 126}, z \in {126, 127},
             n \in (min_size_bytes - 2)..min_size_bytes,
             m \in {0, min_size_bytes - 1, min_size_bytes},
             t \in {<<>>, <<127>>} }

\* The end-to-end example: a JFIF header, arbitrary_len data bytes, FF D9.
ArbitraryData ==
    { d \in { Rep(x, k) \o t \o Rep(x, arbitrary_len - k - Len(t)) :
                x \in {0, 65},
                t \in { <<>>, <<255>>, <<217>>, <<255, 217>>,
                        <<255, 217, 255, 225>>, <<255, 217, 255, 225, 255, 217>>,
                        JfifHeader(0, 16), ExifHeader(0, 16) },
                k \in 0..arbitrary_len } :
        Len(d) = arbitrary_len }

EndToEndBuffers ==
    { JfifHeader(0, 16) \o d \o <<255, 217>> : d \in ArbitraryData }

Buffers == TokenBuffers \cup WindowBuffers \cup EdgeBuffers \cup EndToEndBuffers

Init ==
    /\ buf \in Buffers
    /\ cur = 0
    /\ pc = "jpeg_rescue"
    /\ g_fragment_id = 0
    /\ g_ascii_ignore_before = 0
    /\ wf = NoCall
    /\ files = <<>>
    /\ cout = <<>>
    /\ gzipped = <<>>
    /\ fragments = <<>>
    /\ offered = <<>>
    /\ reads = [by |-> "", offsets |-> {}]
    /\ fault = "none"

Next ==
    \/ jpeg_rescue
    \/ ascii_rescue
    \/ advance
    \/ fopen
    \/ fwrite
    \/ fclose
    \/ stdout
    \/ bash

Spec == Init /\ [][Next]_vars

(***************************************************************************)
(* The vocabulary of the properties, defined on the bytes of the file and  *)
(* not by the operators of the program.                                    *)
(***************************************************************************)
Printable(o) == o \in 0..(end - 1) /\ mem(o) \in 32..126

\* The printable runs [s, e) with a non-printable byte before and after.
BoundedRuns ==
    { r \in { s \in 1..(end - 1) : Printable(s) /\ ~Printable(s - 1) }
            \X { e \in 1..(end - 1) : ~Printable(e) /\ Printable(e - 1) } :
        r[1] < r[2] /\ \A o \in r[1]..(r[2] - 1) : Printable(o) }

\* The detector has been called at offset o and the call is over or under way.
JpegCalled(o) == cur > o \/ (cur = o /\ pc # "jpeg_rescue")

\* ascii_rescue has been called at offset o and has returned.
AsciiReturned(o) == cur > o \/ (cur = o /\ pc \in {"advance", "complete"})

Emitted(extension) ==
    { i \in DOMAIN fragments : fragments[i].extension = extension }

EmittedAt(extension, o) ==
    { i \in Emitted(extension) : fragments[i].start = o }

\* FF D8 FF E0 ?? ?? 4A 46 49 46 00 01 or FF D8 FF E1 ?? ?? 45 78 69 66 00 00.
HeaderAt(o) ==
    /\ o + 12 <= end
    /\ mem(o) = 255
    /\ \/ /\ SubSeq(buf, o + 1, o + 4) = <<255, 216, 255, 224>>
          /\ SubSeq(buf, o + 7, o + 12) = <<74, 70, 73, 70, 0, 1>>
       \/ /\ SubSeq(buf, o + 1, o + 4) = <<255, 216, 255, 225>>
          /\ SubSeq(buf, o + 7, o + 12) = <<69, 120, 105, 102, 0, 0>>

\* FF D9 at offset f, and FF E1 right after it.
MarkerAt(f) == f + 2 <= end /\ mem(f) = 255 /\ mem(f + 1) = 217

ContinuedAt(f) == f + 4 <= end /\ mem(f + 2) = 255 /\ mem(f + 3) = 225

\* The offsets from o on of an FF D9 that is not followed by FF E1, and the
\* first of them.
Terminators(o) == { f \in o..(end - 2) : MarkerAt(f) /\ ~ContinuedAt(f) }

FirstOf(S) == CHOOSE f \in S : \A g \in S : f <= g

\* A terminator of the header at o lies within the maximum length.
HasFooter(o) ==
    Terminators(o) # {} /\ FirstOf(Terminators(o)) <= o + max_length_bytes

(***************************************************************************)
(* C1: a printable run [s, e) between two non-printable bytes is scanned   *)
(* once, by the ascii_rescue call at s.  That call leaves the suppression  *)
(* boundary at e.  A run of at least min_size_bytes bytes (1024 in the     *)
(* program) gives exactly one txt fragment overlapping the run, [s, e); a  *)
(* shorter run gives none, and the calls inside it read nothing.           *)
(***************************************************************************)
C1_BoundedRun ==
    \A r \in BoundedRuns :
        LET s == r[1]
            e == r[2]
            over == { i \in Emitted("txt") :
                        fragments[i].start < e /\ fragments[i].end > s }
        IN  /\ \A i \in over : /\ fragments[i].start = s
                               /\ fragments[i].end = e
                               /\ e - s >= min_size_bytes
            /\ Cardinality(over) <= 1
            /\ (e - s >= min_size_bytes /\ AsciiReturned(s))
                  => Cardinality(over) = 1
            /\ (pc = "advance" /\ cur = s) => g_ascii_ignore_before = e
            /\ (e - s < min_size_bytes /\ pc = "advance" /\ s < cur /\ cur < e)
                  => /\ reads = [by |-> "ascii_rescue", offsets |-> {}]
                     /\ g_ascii_ignore_before = e

\* A scan is complete that met a long run and a short one.
C1_Witness ==
    /\ pc = "complete"
    /\ \E r \in BoundedRuns :
          /\ r[2] - r[1] >= min_size_bytes
          /\ \E i \in Emitted("txt") :
                fragments[i].start = r[1] /\ fragments[i].end = r[2]
    /\ \E r \in BoundedRuns : r[2] - r[1] < min_size_bytes

(***************************************************************************)
(* C2: once jpeg_rescue has been called at a header H whose first          *)
(* terminator F (the first FF D9 from H on that FF E1 does not follow)     *)
(* lies within the maximum length of H, exactly one jpg fragment starts    *)
(* at H, and it is [H, F + 2).                                             *)
(***************************************************************************)
C2_HeaderToFooter ==
    \A H \in 0..(end - 1) :
        (JpegCalled(H) /\ HeaderAt(H) /\ HasFooter(H))
           => /\ Cardinality(EmittedAt("jpg", H)) = 1
              /\ \A i \in EmittedAt("jpg", H) :
                    fragments[i].end = FirstOf(Terminators(H)) + 2

\* A fragment whose terminator is the last one the maximum length allows.
C2_Witness ==
    \E i \in Emitted("jpg") :
        LET H == fragments[i].start
        IN  /\ HeaderAt(H)
            /\ HasFooter(H)
            /\ FirstOf(Terminators(H)) = H + max_length_bytes
            /\ fragments[i].end = H + max_length_bytes + 2

(***************************************************************************)
(* C3: when the first FF D9 from a header H on is followed by FF E1 and    *)
(* the next FF D9 after it is not (and lies within the maximum length),    *)
(* the jpg fragment of H ends after the second FF D9, not after the first. *)
(***************************************************************************)
Markers(o) == { f \in o..(end - 2) : MarkerAt(f) }

C3_ContinuationSkipped ==
    \A H \in 0..(end - 1) :
        (JpegCalled(H) /\ HeaderAt(H) /\ Markers(H) # {})
           => LET F1 == FirstOf(Markers(H))
              IN  (ContinuedAt(F1) /\ Markers(F1 + 1) # {})
                     => LET F2 == FirstOf(Markers(F1 + 1))
                        IN  (~ContinuedAt(F2) /\ F2 <= H + max_length_bytes)
                               => /\ Cardinality(EmittedAt("jpg", H)) = 1
                                  /\ \A i \in EmittedAt("jpg", H) :
                                        /\ fragments[i].end = F2 + 2
                                        /\ fragments[i].end # F1 + 2

\* A fragment that runs over an FF D9 FF E1 to the FF D9 after it.
C3_Witness ==
    \E i \in Emitted("jpg") :
        LET H == fragments[i].start
        IN  /\ HeaderAt(H)
            /\ Markers(H) # {}
            /\ ContinuedAt(FirstOf(Markers(H)))
            /\ Markers(FirstOf(Markers(H)) + 1) # {}
            /\ fragments[i].end = FirstOf(Markers(FirstOf(Markers(H)) + 1)) + 2
            /\ fragments[i].end > FirstOf(Markers(H)) + 4

(***************************************************************************)
(* C4: ascii_rescue reads no byte at an offset >= the length of the file.  *)
(***************************************************************************)
C4_AsciiReadsInsideFile ==
    reads.by = "ascii_rescue" => \A o \in reads.offsets : o < end

(***************************************************************************)
(* C5: a failure to create the output file does not abort the scan.        *)
(***************************************************************************)
C5_SinkFailureIsLocal == ~(pc = "killed" /\ fault = "fwrite_null")

(***************************************************************************)
(* C6: the gzip line of a fragment is printed after its file is written    *)
(* and closed.  Every line the shell has not run yet names a closed file   *)
(* holding the bytes of the fragment of the same write_fragment call, and  *)
(* so did every line the shell has run, at the moment it ran it; every     *)
(* call that has returned has printed exactly one line.                    *)
(***************************************************************************)
Bytes(fr) == SubSeq(buf, fr.start + 1, fr.end)

InWriteFragment == pc \in {"fopen", "fwrite", "fclose", "cout"}

C7_State ==
    /\ cur \in 0..end
    /\ (pc = "complete") <=> (cur = end)
    /\ \A k \in DOMAIN offered :
          offered[k] = << IF k % 2 = 1 THEN "jpeg_rescue" ELSE "ascii_rescue",
                          (k - 1) \div 2 >>
    /\ Len(offered) \in (2 * cur)..(2 * cur + 2)
    /\ pc = "jpeg_rescue" => Len(offered) = 2 * cur
    /\ pc = "ascii_rescue" => Len(offered) = 2 * cur + 1
    /\ pc = "advance" => Len(offered) = 2 * cur + 2
    /\ pc = "complete" => Len(offered) = 2 * end

C7_Step == cur' = cur \/ (pc = "advance" /\ cur' = cur + 1)

C7_EveryOffsetOnce == []C7_State /\ [][C7_Step]_vars

\* A complete scan that found a fragment longer than one byte on its way.
C7_Witness ==
    /\ pc = "complete"
    /\ \E i \in DOMAIN fragments : fragments[i].end - fragments[i].start > 1
    /\ Len(offered) = 2 * end

(***************************************************************************)
(* C8: an earlier fragment never suppresses a JPEG.  Once jpeg_rescue has  *)
(* been called at a header H that has a footer, exactly one jpg fragment   *)
(* starts at H, also when H lies inside an earlier fragment; the jpg       *)
(* fragments are as many as these offsets.                                 *)
(***************************************************************************)
C8_JpegNeverSuppressed ==
    LET found == { H \in 0..(end - 1) :
                     JpegCalled(H) /\ HeaderAt(H) /\ HasFooter(H) }
    IN  /\ \A H \in found : Cardinality(EmittedAt("jpg", H)) = 1
        /\ Cardinality(Emitted("jpg")) = Cardinality(found)

\* A jpg fragment that starts strictly inside an earlier jpg fragment.
C8_Witness ==
    \E i, j \in Emitted("jpg") :
        /\ i < j
        /\ fragments[i].start < fragments[j].start
        /\ fragments[j].start < fragments[i].end

(***************************************************************************)
(* C9: the end-to-end example, a JFIF header, arbitrary_len data bytes     *)
(* (500 in the example) and FF D9.  As stated, for every choice of the     *)
(* data bytes: the complete scan gives exactly one jpg fragment, the whole *)
(* file.                                                                   *)
(***************************************************************************)
IsEndToEnd ==
    /\ end = arbitrary_len + 14
    /\ SubSeq(buf, 1, 12) = <<255, 216, 255, 224, 0, 16, 74, 70, 73, 70, 0, 1>>
    /\ SubSeq(buf, end - 1, end) = <<255, 217>>

OneWholeJpeg ==
    /\ Cardinality(Emitted("jpg")) = 1
    /\ \A i \in Emitted("jpg") :
          fragments[i].end - fragments[i].start = arbitrary_len + 14

C9_Original == (pc = "complete" /\ IsEndToEnd) => OneWholeJpeg

\* Every FF D9 of the data is followed by FF E1, and the data holds no header.
PlainData ==
    /\ FirstOf(Terminators(0)) = end - 2
    /\ \A o \in 1..(end - 1) : ~HeaderAt(o)

(***************************************************************************)
(* C9, amended: the same for the data bytes in which every FF D9 is        *)
(* followed by FF E1 and no JFIF or EXIF header occurs.                    *)
(***************************************************************************)
C9_EndToEnd == (pc = "complete" /\ IsEndToEnd /\ PlainData) => OneWholeJpeg

\* A complete scan of an example whose data holds an FF D9 FF E1.
C9_Witness ==
    /\ pc = "complete"
    /\ IsEndToEnd
    /\ PlainData
    /\ Cardinality(Markers(0)) = 2
    /\ OneWholeJpeg

(***************************************************************************)
(* C10: at a header H without a footer within the maximum length or the    *)
(* file, jpeg_rescue emits nothing and changes neither g_fragment_id nor   *)
(* g_ascii_ignore_before; main goes on with ascii_rescue at H and then     *)
(* with offset H + 1.                                                      *)
(***************************************************************************)
NoFooterAt(o) == HeaderAt(o) /\ ~HasFooter(o)

C10_Step ==
    (NoFooterAt(cur) /\ pc' # pc)
       => /\ pc = "jpeg_rescue"
             => /\ pc' = "ascii_rescue"
                /\ cur' = cur
                /\ UNCHANGED <<g_fragment_id, g_ascii_ignore_before, fragments,
                               files, cout, fault>>
          /\ pc = "ascii_rescue"
                => /\ pc' = "advance"
                   /\ cur' = cur
                   /\ offered' = Append(offered, <<"ascii_rescue", cur>>)
          /\ pc = "advance" => (pc' = "jpeg_rescue" /\ cur' = cur + 1)

C10_NoFooterIsNotFatal == [][C10_Step]_vars

\* The scan has passed a header whose only FF D9 lies beyond the maximum length.
C10_Witness ==
    /\ pc = "jpeg_rescue"
    /\ cur > 0
    /\ NoFooterAt(cur - 1)
    /\ Terminators(cur - 1) # {}
    /\ EmittedAt("jpg", cur - 1) = {}

(***************************************************************************)
(* C11: g_fragment_id counts the write_fragment calls.  It never           *)
(* decreases and grows by one exactly at a call; the k-th call, of either  *)
(* extension, gets the id k and the name <ext>-fragment-<k>.<ext>, so no   *)
(* id and no name is used twice; a JPEG found first is jpg-fragment-1.jpg. *)
(***************************************************************************)
Digit(d) ==
    CASE d = 0 -> "0" [] d = 1 -> "1" [] d = 2 -> "2" [] d = 3 -> "3"
      [] d = 4 -> "4" [] d = 5 -> "5" [] d = 6 -> "6" [] d = 7 -> "7"
      [] d = 8 -> "8" [] d = 9 -> "9"

RECURSIVE Decimal(_)
Decimal(n) == IF n < 10 THEN Digit(n) ELSE Decimal(n \div 10) \o Digit(n % 10)

ArtifactName(extension, id) ==
    extension \o "-fragment-" \o Decimal(id) \o "." \o extension

C11_State ==
    /\ g_fragment_id = Len(fragments)
    /\ \A k \in DOMAIN fragments : fragments[k].id = k
    /\ \A k \in DOMAIN cout :
          cout[k][2] = ArtifactName(fragments[k].extension, k)
    /\ InWriteFragment
          => wf.filename = ArtifactName(wf.extension, Len(fragments))
    /\ \A j, k \in DOMAIN cout : cout[j][2] = cout[k][2] => j = k
    /\ (cout # <<>> /\ fragments[1].extension = "jpg")
          => cout[1][2] = "jpg-fragment-1.jpg"

C11_Step ==
    /\ g_fragment_id' >= g_fragment_id
    /\ (fragments' # fragments) <=> (g_fragment_id' = g_fragment_id + 1)
    /\ (fragments' = fragments) <=> (g_fragment_id' = g_fragment_id)

C12_Step ==
    /\ g_ascii_ignore_before' >= g_ascii_ignore_before
    /\ g_ascii_ignore_before' # g_ascii_ignore_before
          => \/ pc = "ascii_rescue"
             \/ InWriteFragment /\ wf.ret = "ascii_rescue"
    /\ (pc = "ascii_rescue" /\ cur < g_ascii_ignore_before /\ pc' # pc)
          => /\ pc' = "advance"
             /\ reads'.offsets = {}
             /\ UNCHANGED <<cur, g_fragment_id, g_ascii_ignore_before, wf,
                            fragments, files, cout, fault>>

C12_BoundaryMonotone == [][C12_Step]_vars

\* A call below the boundary has just returned.
C12_Witness ==
    /\ pc = "advance"
    /\ cur < g_ascii_ignore_before
    /\ reads = [by |-> "ascii_rescue", offsets |-> {}]

(***************************************************************************)
(* C13: every fragment handed to write_fragment is a non-empty range of    *)
(* the file, start < end <= length, and it starts at the offset at which   *)
(* the detector that found it was called.                                  *)
(***************************************************************************)
C13_State ==
    /\ \A k \in DOMAIN fragments :
          /\ 0 <= fragments[k].start
          /\ fragments[k].start < fragments[k].end
          /\ fragments[k].end <= Len(buf)
    /\ InWriteFragment => fragments[Len(fragments)].start = cur

C13_Step ==
    fragments' # fragments
       => /\ Len(fragments') = Len(fragments) + 1
          /\ fragments'[Len(fragments')].start = cur
          /\ pc \in {"jpeg_rescue", "ascii_rescue"}
          /\ fragments'[Len(fragments')].extension =
                IF pc = "jpeg_rescue" THEN "jpg" ELSE "txt"
          /\ UNCHANGED cur

C13_FragmentInsideFile == []C13_State /\ [][C13_Step]_vars

\* A fragment found after offset 0 that ends on the last byte of the file,
\* written after a jpg fragment that ends before it.
C13_Witness ==
    /\ InWriteFragment
    /\ cur > 0
    /\ wf.end = Len(buf)
    /\ \E i \in Emitted("jpg") : fragments[i].end < Len(buf)

(***************************************************************************)
(* C14: no jpg fragment is longer than max_length_bytes, that is, no       *)
(* terminator is accepted that makes the file longer than the maximum.     *)
(***************************************************************************)
C14_JpegWithinMaximum ==
    \A i \in Emitted("jpg") :
       fragments[i].end - fragments[i].start <= max_length_bytes

(***************************************************************************)
(* C15: check_if_bytes_match at a position is true exactly when the        *)
(* pattern fits before the end of the file and every byte, masked, equals  *)
(* the pattern's byte; so jpeg_is_header is true exactly on the twelve     *)
(* bytes of a JFIF or EXIF header, whatever bytes 4 and 5 are.  A call     *)
(* that finds no header changes nothing of the program's state.            *)
(***************************************************************************)
MaskedEqual(o, pattern, mask) ==
    /\ o + Len(pattern) <= Len(buf)
    /\ \A i \in 0..(Len(pattern) - 1) :
          BitAnd(buf[o + i + 1], mask[i + 1]) = pattern[i + 1]

\* Every position of the file before the scan starts; after, the position at
\* which jpeg_rescue is about to be called.
C15_Positions ==
    IF offered = <<>> THEN 0..Len(buf)
    ELSE IF pc = "jpeg_rescue" THEN {cur} ELSE {}

C15_State ==
    \A o \in C15_Positions :
       /\ check_if_bytes_match(o, jpeg_pattern_size, jfif_pattern, jpeg_mask)
             <=> MaskedEqual(o, jfif_pattern, jpeg_mask)
       /\ check_if_bytes_match(o, jpeg_pattern_size, exif_pattern, jpeg_mask)
             <=> MaskedEqual(o, exif_pattern, jpeg_mask)
       /\ jpeg_is_header(o) <=> HeaderAt(o)
       /\ o + jpeg_pattern_size > Len(buf) => ~jpeg_is_header(o)

C15_Step ==
    (pc = "jpeg_rescue" /\ pc' # pc /\ ~HeaderAt(cur))
       => /\ pc' = "ascii_rescue"
          /\ UNCHANGED <<buf, cur, g_fragment_id, g_ascii_ignore_before, wf,
                         files, cout, fragments, fault>>

C15_PatternMatcher == []C15_State /\ [][C15_Step]_vars

\* jpeg_rescue has returned from an offset where a header starts, wildcard
\* bytes included, but is cut by the end of the file.
C15_Witness ==
    /\ pc = "ascii_rescue"
    /\ cur + 6 < Len(buf)
    /\ cur + jpeg_pattern_size > Len(buf)
    /\ \A i \in 0..(Len(buf) - cur - 1) :
          BitAnd(buf[cur + i + 1], jpeg_mask[i + 1]) = exif_pattern[i + 1]
    /\ fragments = <<>>

(***************************************************************************)
(* C16: the order of the two detector calls in the loop of main does not   *)
(* matter.  The loop with ascii_rescue called before jpeg_rescue hands     *)
(* write_fragment the same fragments, in the same order and with the same  *)
(* ids, as the program does; no offset gets a fragment from both.          *)
(***************************************************************************)
\* What a write_fragment call adds to the fragments written so far.
Written(out, start, e, extension) ==
    Append(out, [start |-> start, end |-> e, extension |-> extension,
                 id |-> Len(out) + 1])

\* The loop of main from offset c on, with the two calls exchanged:
\* ascii_rescue(cur, end); jpeg_rescue(cur, end); cur++.
RECURSIVE AsciiFirstLoop(_, _, _)
AsciiFirstLoop(c, ignore_before, out) ==
    IF c = end
    THEN out
    ELSE LET scans     == ~(c < ignore_before)
             run_end   == ascii_loop(c, 0)
             after_txt == IF scans /\ ascii_is_file(c, run_end)
                          THEN Written(out, c, run_end, "txt")
                          ELSE out
             jpeg_end  == IF jpeg_is_header(c)
                          THEN jpeg_find_footer(c)
                          ELSE NULL
             after_jpg == IF jpeg_end # NULL
                          THEN Written(after_txt, c, jpeg_end, "jpg")
                          ELSE after_txt
         IN  AsciiFirstLoop(c + 1,
                            IF scans THEN run_end ELSE ignore_before,
                            after_jpg)

AsciiFirstFragments == AsciiFirstLoop(0, 0, <<>>)

C16_OrderOfDetectors ==
    /\ \A o \in 0..(Len(buf) - 1) :
          EmittedAt("jpg", o) = {} \/ EmittedAt("txt", o) = {}
    /\ pc \in {"fopen", "complete", "killed"}
          => LET exchanged == AsciiFirstFragments
             IN  /\ Len(fragments) <= Len(exchanged)
                 /\ fragments = SubSeq(exchanged, 1, Len(fragments))
                 /\ pc = "complete" => fragments = exchanged

\* A complete scan that found a jpg fragment after a txt fragment.
C16_Witness ==
    /\ pc = "complete"
    /\ \E i, j \in DOMAIN fragments :
          /\ i < j
          /\ fragments[i].extension = "txt"
          /\ fragments[j].extension = "jpg"
    /\ fragments = AsciiFirstFragments

(***************************************************************************)
(* C17: the txt fragments of a scan are the maximal runs of printable      *)
(* bytes of length >= min_size_bytes, each once, runs that start at offset *)
(* 0 or reach the end of the file included.  A txt fragment starts at      *)
(* offset 0 or after a byte that is not printable, ends at the end of the  *)
(* file or before a byte that is not printable, no two txt fragments       *)
(* overlap, and when the scan of the file is over, every such run has its  *)
(* fragment.  (The scan is over when main returns or when the read past    *)
(* the end of the file has ended the process.)                             *)
(***************************************************************************)
MaximalRun(s, e) ==
    /\ 0 <= s /\ s < e /\ e <= Len(buf)
    /\ \A o \in s..(e - 1) : Printable(o)
    /\ s = 0 \/ ~Printable(s - 1)
    /\ e = Len(buf) \/ ~Printable(e)

LongRuns ==
    { r \in (0..(Len(buf) - 1)) \X (1..Len(buf)) :
        r[2] - r[1] >= min_size_bytes /\ MaximalRun(r[1], r[2]) }

ScanIsOver == pc = "complete" \/ (pc = "killed" /\ fault = "read_past_end")

C17_MaximalRuns ==
    /\ \A i \in Emitted("txt") :
          /\ MaximalRun(fragments[i].start, fragments[i].end)
          /\ fragments[i].end - fragments[i].start >= min_size_bytes
    /\ \A i, j \in Emitted("txt") :
          i # j => \/ fragments[i].end <= fragments[j].start
                   \/ fragments[j].end <= fragments[i].start
    /\ ScanIsOver
          => /\ { <<fragments[i].start, fragments[i].end>> :
                     i \in Emitted("txt") } = LongRuns
             /\ Cardinality(Emitted("txt")) = Cardinality(LongRuns)

(***************************************************************************)
(* C18: a jpg fragment holds the whole header it starts with: it is at     *)
(* least jpeg_pattern_size bytes long, so the FF D9 that ends it is never  *)
(* inside the header.                                                      *)
(***************************************************************************)
C18_JpegContainsHeader ==
    \A i \in Emitted("jpg") :
       fragments[i].end - fragments[i].start >= jpeg_pattern_size

(***************************************************************************)
(* C19: jpeg_rescue reads only bytes of the file, from the cursor on and   *)
(* before the end, in the header check and in the footer search; an FF D9  *)
(* with fewer than two bytes of the file after it is looked at and is      *)
(* taken for the footer without a look at the bytes after it.              *)
(***************************************************************************)
\* The first FF D9 from o on that FF E1 does not follow lies within the
\* maximum length and has fewer than two bytes of the file after it.
FooterAtEnd(o) ==
    /\ HasFooter(o)
    /\ FirstOf(Terminators(o)) + 3 >= Len(buf)

C19_State ==
    /\ reads.by = "jpeg_rescue"
          => \A o \in reads.offsets : cur <= o /\ o < Len(buf)
    /\ (reads.by = "jpeg_rescue" /\ HeaderAt(cur) /\ FooterAtEnd(cur))
          => /\ EmittedAt("jpg", cur) # {}
             /\ \A i \in EmittedAt("jpg", cur) :
                   fragments[i].end = FirstOf(Terminators(cur)) + 2
             /\ FirstOf(Terminators(cur)) + 1 \in reads.offsets
             /\ FirstOf(Terminators(cur)) + 2 \notin reads.offsets

C19_Step ==
    pc = "jpeg_rescue" /\ pc' # pc => reads'.by = "jpeg_rescue"

C19_JpegReadsInsideFile == []C19_State /\ [][C19_Step]_vars

\* A footer found with one byte of the file after it: that byte is not read.
C19_Witness ==
    /\ pc = "fopen"
    /\ wf.extension = "jpg"
    /\ wf.end = Len(buf) - 1
    /\ reads.by = "jpeg_rescue"
    /\ (Len(buf) - 2) \in reads.offsets
    /\ (Len(buf) - 1) \notin reads.offsets

====
